---- MODULE Spec2Model ----
(***************************************************************************)
(* Model of the Arduino data collector.  Two iterations of the program are *)
(* modelled side by side:                                                  *)
(*   variant "A"  src/Arduino_Data_Collector.py                (main)      *)
(*   variant "B"  src/Program_Files/Arduino_Data_Collector.py  (main,      *)
(*                called from src/main.py)                                 *)
(* A Python str is a sequence of one-character strings, so that replace,   *)
(* split, strip, splitext and the f-strings are computed and not assumed.  *)
(* A DataFrame is its ordered column labels plus a sequence of rows; a     *)
(* float cell is written by its repr ("1" becomes "1.0").                  *)
(***************************************************************************)
EXTENDS Integers, Sequences, FiniteSets, TLC

(* ------------------------------ bounds --------------------------------- *)
\* largest sample count the user (A) or the caller (B) asks for
MaxSamples == 2
\* largest collision suffix "name (k).csv" that may already exist on disk
MaxFiles == 2
\* most non-blank answers the user gives at the baudrate prompt
MaxPrompts == 2

(* --------------------------- str primitives ---------------------------- *)
None == <<>>

csv == <<".", "c", "s", "v">>
skip == <<"s", "k", "i", "p">>
Arduino_data == <<"A", "r", "d", "u", "i", "n", "o", "_", "d", "a", "t", "a">>
default == <<"d", "e", "f", "a", "u", "l", "t">>
Col == <<"C", "o", "l">>

delimiters == <<";", "|", ":", ",">>

Digit == <<"0", "1", "2", "3", "4", "5", "6", "7", "8", "9">>
DigitChars == {Digit[i] : i \in 1..10}

\* str(n) for a natural number n
RECURSIVE str(_)
str(n) == IF n < 10 THEN <<Digit[n + 1]>> ELSE str(n \div 10) \o <<Digit[(n % 10) + 1]>>

\* sub in s
Contains(s, sub) ==
    \E i \in 1..(Len(s) - Len(sub) + 1) : SubSeq(s, i, i + Len(sub) - 1) = sub

\* s.lower(), for the upper-case letters of the alphabet used here
LowerChar(c) == CASE c = "A" -> "a" [] c = "S" -> "s" [] OTHER -> c
lower(s) == [i \in 1..Len(s) |-> LowerChar(s[i])]

\* s.replace(d, ' ')
replace(s, d) == [i \in 1..Len(s) |-> IF s[i] = d THEN " " ELSE s[i]]

\* for delimiter in delimiters: raw_data = raw_data.replace(delimiter, ' ')
RECURSIVE ReplaceDelimiters(_, _)
ReplaceDelimiters(s, i) ==
    IF i > Len(delimiters) THEN s ELSE ReplaceDelimiters(replace(s, delimiters[i]), i + 1)

\* s.strip(): leading and trailing blanks removed
RECURSIVE lstrip(_, _)
lstrip(s, chars) == IF s # <<>> /\ Head(s) \in chars THEN lstrip(Tail(s), chars) ELSE s
RECURSIVE rstrip(_, _)
rstrip(s, chars) ==
    IF s # <<>> /\ s[Len(s)] \in chars THEN rstrip(SubSeq(s, 1, Len(s) - 1), chars) ELSE s
strip(s, chars) == rstrip(lstrip(s, chars), chars)

\* s.split(): the maximal runs of non-blank characters
RECURSIVE SplitWs(_, _, _)
SplitWs(s, cur, acc) ==
    IF s = <<>> THEN (IF cur = <<>> THEN acc ELSE Append(acc, cur))
    ELSE IF Head(s) = " "
         THEN SplitWs(Tail(s), <<>>, IF cur = <<>> THEN acc ELSE Append(acc, cur))
         ELSE SplitWs(Tail(s), Append(cur, Head(s)), acc)
split(s) == SplitWs(s, <<>>, <<>>)

\* s.split('.')[0]: what precedes the first dot
RECURSIVE SplitDot0(_)
SplitDot0(s) ==
    IF s = <<>> \/ Head(s) = "." THEN <<>> ELSE <<Head(s)>> \o SplitDot0(Tail(s))

\* os.path.splitext(name): the extension starts at the last dot, unless only
\* dots precede it
LastDot(s) == IF \E i \in 1..Len(s) : s[i] = "."
              THEN CHOOSE i \in 1..Len(s) : s[i] = "." /\ \A j \in (i + 1)..Len(s) : s[j] # "."
              ELSE 0
splitext(s) ==
    LET i == LastDot(s)
    IN  IF i > 0 /\ \E j \in 1..(i - 1) : s[j] # "."
        THEN <<SubSeq(s, 1, i - 1), SubSeq(s, i, Len(s))>>
        ELSE <<s, <<>>>>

(* ------------------------- record normalisation ------------------------ *)
\* NormalizeA without the delimiter loop
NormalizeA_WhitespaceOnly(line) == split(strip(line, {" "}))

\* variant A: ser.readline().decode().strip(), the delimiters replaced by
\* blanks, then .split()
NormalizeA(line) == split(ReplaceDelimiters(strip(line, {" "}), 1))

\* variant B: ser.readline().decode().strip(), then .split()
NormalizeB(line) == split(strip(line, {" "}))

\* variant A: the column labels made from the first record
EstablishHeadersA(raw_data, printed) ==
    IF printed THEN raw_data
    ELSE [num \in 1..Len(raw_data) |-> Col \o str(num - 1)]

\* float(tok) succeeds; the alphabet of the modelled lines has digits, the
\* dot, letters and delimiters only (no sign, exponent, inf or nan)
IsFloat(tok) ==
    /\ \A i \in 1..Len(tok) : tok[i] \in DigitChars \cup {"."}
    /\ \E i \in 1..Len(tok) : tok[i] \in DigitChars
    /\ Cardinality({i \in 1..Len(tok) : tok[i] = "."}) <= 1

\* repr(float(tok)) for a token that IsFloat
FloatRepr(tok) ==
    LET d  == LastDot(tok)
        ip == IF d = 0 THEN tok ELSE SubSeq(tok, 1, d - 1)
        fp == IF d = 0 THEN <<>> ELSE SubSeq(tok, d + 1, Len(tok))
        i0 == lstrip(ip, {"0"})
        f0 == rstrip(fp, {"0"})
    IN  (IF i0 = <<>> THEN <<"0">> ELSE i0) \o <<".">> \o (IF f0 = <<>> THEN <<"0">> ELSE f0)

\* AppendRowA fitting the record to the labels instead of raising
AppendRowA_Fit(frame, hdrs, raw_data) ==
    [ok |-> TRUE,
     frame |-> Append(frame, [i \in 1..Len(hdrs) |->
                                 IF i <= Len(raw_data) THEN raw_data[i] ELSE <<>>])]

\* variant A: pd.DataFrame(raw_data).T with .columns = headers, concatenated
\* under the frame.  "ok" is FALSE when pandas raises ValueError (length
\* mismatch); an empty record makes a frame of no rows.
AppendRowA(frame, hdrs, raw_data) ==
    IF Len(raw_data) # Len(hdrs) THEN [ok |-> FALSE, frame |-> frame]
    ELSE IF raw_data = <<>> THEN [ok |-> TRUE, frame |-> frame]
    ELSE [ok |-> TRUE, frame |-> Append(frame, raw_data)]

\* variant B: pd.DataFrame(data_in.split(), dtype=float).T with .columns =
\* column_names.  A token that is no float makes pandas raise ValueError, or
\* (older pandas) keeps the frame as text: "strict" says which.
AppendRowB(frame, hdrs, toks, strict) ==
    LET numeric == \A i \in 1..Len(toks) : IsFloat(toks[i])
        cells   == IF numeric THEN [i \in 1..Len(toks) |-> FloatRepr(toks[i])] ELSE toks
    IN  IF (~numeric /\ strict) \/ Len(toks) # Len(hdrs) THEN [ok |-> FALSE, frame |-> frame]
        ELSE IF toks = <<>> THEN [ok |-> TRUE, frame |-> frame]
        ELSE [ok |-> TRUE, frame |-> Append(frame, cells)]

(* ----------------------------- saving path ----------------------------- *)
\* FreePath with an "if" in place of the "while"
FreePath_Once(base, ext, path, count, existing) ==
    IF path \in existing
    THEN base \o <<" ", "(">> \o str(count) \o <<")">> \o ext
    ELSE path

\* while os.path.exists(path): path = f'{base} ({count}){ext}'; count += 1
RECURSIVE FreePath(_, _, _, _, _)
FreePath(base, ext, path, count, existing) ==
    IF path \in existing
    THEN FreePath(base, ext, base \o <<" ", "(">> \o str(count) \o <<")">> \o ext,
                  count + 1, existing)
    ELSE path

\* variant A: the filename part of get_collection_params.  The path is
\* relative to save_folder_path, whose entries are the set "existing".
FilenameA(typed) ==
    IF typed = <<>> THEN Arduino_data
    ELSE IF Contains(typed, csv) THEN SplitDot0(typed) ELSE typed

RequestedA(typed) ==
    IF lower(FilenameA(typed)) = skip THEN None ELSE FilenameA(typed) \o csv

PathA(typed, existing) ==
    IF RequestedA(typed) = None THEN None
    ELSE LET be == splitext(RequestedA(typed))
         IN  FreePath(be[1], be[2], RequestedA(typed), 1, existing)

\* variant B: get_saving_params.  "answer" is the reply to the overwrite
\* question, asked only for a taken, non-default name.
UserB(typed) ==
    IF typed # <<>>
    THEN (IF Contains(typed, csv) THEN strip(typed, {".", "c", "s", "v"}) ELSE typed)
    ELSE default

RequestedB(typed) == UserB(typed) \o csv

OverwriteB(typed, answer, existing) ==
    /\ RequestedB(typed) \in existing
    /\ UserB(typed) # default
    /\ lower(answer) \in {<<"y">>}

PathB(typed, answer, existing) ==
    IF OverwriteB(typed, answer, existing) THEN RequestedB(typed)
    ELSE LET be == splitext(RequestedB(typed))
         IN  FreePath(be[1], be[2], RequestedB(typed), 1, existing)

(* ------------------------- port and baudrate --------------------------- *)
\* baudrate = None
NoBaudrate == -1

\* baudrate = 9600
DefaultBaudrate == 9600

\* int(s) succeeds; the modelled answers have digits and letters only
IsInt(s) == s # <<>> /\ \A i \in 1..Len(s) : s[i] \in DigitChars

\* int(s) for an answer that IsInt
RECURSIVE ToInt(_)
ToInt(s) ==
    IF s = <<>> THEN 0
    ELSE 10 * ToInt(SubSeq(s, 1, Len(s) - 1))
         + (CHOOSE d \in 0..9 : Digit[d + 1] = s[Len(s)])

(* ------------------------------- inputs -------------------------------- *)
\* lines the device may print
Lines ==
    { <<>>,
      <<"T", ";", "P">>,
      <<"T", " ", "P">>,
      <<"1", ",", "2">>,
      <<"1", " ", "0", "2">>,
      <<" ", "3", "|", "4", ":", "5", " ">>,
      <<"7">> }

\* what the user may type at the filename prompt
FileNames ==
    { <<>>,
      <<"d">>,
      <<"d", ".", "c", "s", "v">>,
      <<"S", "k", "i", "p">>,
      <<"c", "d", ".", "c", "s", "v">>,
      <<".", "c", "s", "v">> }

\* replies to the overwrite question of variant B
Answers == { <<"y">>, <<"y", "e", "s">>, <<"n">> }

SampleCounts == 1..MaxSamples

\* a user who picks the first port and accepts the default baudrate
QuietUser == [port |-> { <<"1">> }, baud |-> { <<>> }]

\* a user who may type anything of this at the two prompts
AnyUser ==
    [port |-> { <<"Q">>, <<"x">>, <<>>, <<"0">>, <<"1">>, <<"2">>, <<"3">> },
     baud |-> { <<>>, <<"x">>, <<"1", "2">>, <<"9", "6", "0", "0">> }]

\* "d.csv", "d (1).csv", "d (2).csv", ...
Numbered(k) ==
    IF k = 0 THEN <<"d">> \o csv ELSE <<"d", " ", "(">> \o str(k) \o <<")">> \o csv

\* directory contents the program may start with
SessionFiles == { {}, {Numbered(0)} }
SavingFiles == SUBSET ({Numbered(k) : k \in 0..MaxFiles} \cup {default \o csv, csv})

(* -------------------------------- state -------------------------------- *)
VARIABLES
    variant,          \* "A" or "B": which program runs
    device,           \* the lines the attached device can print
    user,             \* what the user can type at the port and baudrate prompts
    ports,            \* get_available_ports()
    port,             \* the chosen port, "None" before
    baudrate,         \* the baudrate, NoBaudrate before
    answers,          \* the answers given at the baudrate prompt, in order
    files,            \* names existing in the saving directory
    pc,               \* position of main
    ser,              \* the Serial object: "unbound", "open" or "closed"
    headers_printed,  \* A: answer to the headers question
    max_count,        \* A: max_count, B: num_of_samples
    requested,        \* the path built from the typed name, before the exists loop
    path,             \* A: path, B: save_name (None: saving skipped)
    overwrite,        \* B: the user agreed to overwrite
    count,            \* records consumed by the loop
    received,         \* the raw lines read so far, in arrival order
    bound,            \* the frame and its labels have been assigned
    headers,          \* A: headers, B: column_names
    dataframe,        \* A: dataframe, B: data (the rows)
    triggerd,         \* A: triggerd
    cause,            \* how the loop ended: "", "completed", "disconnected", "interrupted"
    preview,          \* A: dataframe.head() was printed
    saved,            \* "no", "saved", "skipped" or "failed"
    clobbered,        \* the save wrote over a file that existed
    jobStatus,        \* A: the Job Status line, B: 'Data Collection Finished.'
    summary,          \* A: the row count printed with the runtime, -1 if not printed
    error,            \* the exception that ended the program, "" if none
    exitStatus        \* process exit status, -1 while running

vars == <<variant, device, user, ports, port, baudrate, answers, files, pc, ser, headers_printed, max_count, requested, path,
          overwrite, count, received, bound, headers, dataframe, triggerd, cause, preview,
          saved, clobbered, jobStatus, summary, error, exitStatus>>

config == <<variant, device, user, ports, port, baudrate, answers>>
params == <<headers_printed, max_count, requested, path, overwrite>>
table == <<count, received, bound, headers, dataframe>>
ending == <<triggerd, cause>>
report == <<preview, saved, clobbered, jobStatus, summary>>

Disconnected == "-> Arduino was disconnected."
Stopped == "-> User stopped Program."

\* A: PORT and BAUDRATE are None, main asks for them; B: main.py passes
\* 'COM3' and 9600
InitCommon ==
    /\ variant \in {"A", "B"}
    /\ pc = IF variant = "A" THEN "port" ELSE "connect"
    /\ port = IF variant = "A" THEN "None" ELSE "COM3"
    /\ baudrate = IF variant = "A" THEN NoBaudrate ELSE DefaultBaudrate
    /\ answers = <<>>
    /\ ser = "unbound"
    /\ headers_printed = FALSE
    /\ max_count = 0
    /\ requested = None
    /\ path = None
    /\ overwrite = FALSE
    /\ count = 0
    /\ received = <<>>
    /\ bound = FALSE
    /\ headers = <<>>
    /\ dataframe = <<>>
    /\ triggerd = "None"
    /\ cause = ""
    /\ preview = FALSE
    /\ saved = "no"
    /\ clobbered = FALSE
    /\ jobStatus = ""
    /\ summary = -1
    /\ error = ""
    /\ exitStatus = -1

\* a session on any device output, in a directory with little in it
Init ==
    /\ InitCommon
    /\ user = QuietUser
    /\ ports = <<"COM3">>
    /\ device = Lines
    /\ files \in SessionFiles

\* a session on a device printing one line, in any directory
InitSaving ==
    /\ InitCommon
    /\ user = QuietUser
    /\ ports = <<"COM3">>
    /\ device = {<<"7">>}
    /\ files \in SavingFiles

\* a session on a device printing one line, with any answers at the prompts
InitPrompt ==
    /\ InitCommon
    /\ user = AnyUser
    /\ ports = <<"COM3", "COM4">>
    /\ device = {<<"7">>}
    /\ files = {}

\* the program ends with exception e (traceback, status st)
Raise(e, st) ==
    /\ pc' = "exit"
    /\ error' = e
    /\ exitStatus' = st

(* ------------------------------ the loops ----------------------------- *)
\* LoopCondition without the iteration for the priming record
LoopCondition_NoPriming(c, n) == c < n

\* A: while count < max_count + 1, B: for count in range(num_of_samples+1)
LoopCondition(c, n) == c < n + 1

(* ------------------------------ variant A ------------------------------ *)
\* get_port_and_baudrate: one pass of the loop that asks for the port
PortPrompt ==
    /\ variant = "A" /\ pc = "port"
    /\ \E answer \in user.port :
          IF lower(answer) \in { <<"q">>, <<"q", "u", "i", "t">> }
          THEN /\ Raise("UserQuit", 1)
               /\ UNCHANGED port
          ELSE IF IsInt(answer) /\ ToInt(answer) > 0 /\ ToInt(answer) < Len(ports) + 1
          THEN /\ port' = ports[ToInt(answer)]
               /\ pc' = "baud"
               /\ UNCHANGED <<error, exitStatus>>
          ELSE UNCHANGED <<port, pc, error, exitStatus>>
    /\ UNCHANGED <<variant, device, user, ports, baudrate, answers, files, ser, params, table,
                   ending, report>>

\* get_port_and_baudrate: one pass of the loop that asks for the baudrate;
\* the function returns when the loop is left
BaudPrompt ==
    /\ variant = "A" /\ pc = "baud"
    /\ \E answer \in user.baud :
          /\ answer # <<>> => Len(SelectSeq(answers, LAMBDA a : a # <<>>)) < MaxPrompts
          /\ answers' = Append(answers, answer)
          /\ IF answer = <<>>
             THEN /\ baudrate' = DefaultBaudrate
                  /\ pc' = "connect"
             ELSE IF IsInt(answer)
             THEN /\ baudrate' = ToInt(answer)
                  /\ pc' = "baud"
             ELSE UNCHANGED <<baudrate, pc>>
    /\ UNCHANGED <<variant, device, user, ports, port, files, ser, params, table, ending,
                   report, error, exitStatus>>

\* test_connection(port, baudrate, close=True): the port is opened and closed
\* again, or the program exits with a message (status 1)
TestConnection ==
    /\ variant = "A" /\ pc = "connect"
    /\ \E ok \in BOOLEAN :
          IF ok THEN /\ ser' = "closed"
                     /\ pc' = "params"
                     /\ UNCHANGED <<error, exitStatus>>
                ELSE /\ Raise("ConnectionFailed", 1)
                     /\ UNCHANGED ser
    /\ UNCHANGED <<config, files, params, table, ending, report>>

\* get_collection_params()
GetCollectionParams ==
    /\ variant = "A" /\ pc = "params"
    /\ \E hp \in BOOLEAN, n \in SampleCounts, typed \in FileNames :
          /\ headers_printed' = hp
          /\ max_count' = n
          /\ requested' = RequestedA(typed)
          /\ path' = PathA(typed, files)
    /\ pc' = "open"
    /\ UNCHANGED <<config, files, ser, overwrite, table, ending, report, error, exitStatus>>

\* ser.open(), outside the try block
SerOpen ==
    /\ variant = "A" /\ pc = "open"
    /\ \E ok \in BOOLEAN :
          IF ok THEN /\ ser' = "open"
                     /\ pc' = IF LoopCondition(count, max_count) THEN "loop" ELSE "report"
                     /\ UNCHANGED <<error, exitStatus>>
                ELSE /\ Raise("SerialException", 1)
                     /\ UNCHANGED ser
    /\ UNCHANGED <<config, files, params, table, ending, report>>

\* one iteration of the while loop: a line is read and put in the frame
ReadLineA ==
    /\ variant = "A" /\ pc = "loop" /\ LoopCondition(count, max_count)
    /\ \E line \in device :
          LET raw_data == NormalizeA(line)
              row      == AppendRowA(dataframe, headers, raw_data)
          IN  /\ received' = Append(received, line)
              /\ IF count = 0
                 THEN /\ headers' = EstablishHeadersA(raw_data, headers_printed)
                      /\ dataframe' = <<>>
                      /\ bound' = TRUE
                      /\ count' = 1
                      /\ pc' = IF LoopCondition(1, max_count) THEN "loop" ELSE "report"
                      /\ UNCHANGED <<error, exitStatus>>
                 ELSE IF row.ok
                 THEN /\ dataframe' = row.frame
                      /\ count' = count + 1
                      /\ pc' = IF LoopCondition(count + 1, max_count) THEN "loop" ELSE "report"
                      /\ UNCHANGED <<headers, bound, error, exitStatus>>
                 ELSE /\ Raise("ValueError", 1)
                      /\ UNCHANGED <<headers, bound, dataframe, count>>
              /\ cause' = IF pc' = "report" THEN "completed" ELSE cause
    /\ UNCHANGED <<config, files, ser, params, triggerd, report>>

\* ser.readline() raises serial.SerialException
DisconnectA ==
    /\ variant = "A" /\ pc = "loop" /\ LoopCondition(count, max_count)
    /\ triggerd' = Disconnected
    /\ cause' = "disconnected"
    /\ pc' = "report"
    /\ UNCHANGED <<config, files, ser, params, table, report, error, exitStatus>>

\* the user presses ctrl-c during the loop
InterruptA ==
    /\ variant = "A" /\ pc = "loop" /\ LoopCondition(count, max_count)
    /\ ser' = "closed"
    /\ triggerd' = Stopped
    /\ cause' = "interrupted"
    /\ pc' = "report"
    /\ UNCHANGED <<config, files, params, table, report, error, exitStatus>>

\* what follows the try block: preview, save_data, the status lines
ReportA ==
    /\ variant = "A" /\ pc = "report"
    /\ \E writeOk \in BOOLEAN :
          IF ~bound
          THEN \* print(dataframe.head()): the name was never assigned
               /\ Raise("NameError", 1)
               /\ UNCHANGED <<files, report>>
          ELSE IF path # None /\ ~writeOk
          THEN \* data.to_csv(path) fails
               /\ preview' = TRUE
               /\ saved' = "failed"
               /\ Raise("OSError", 1)
               /\ UNCHANGED <<files, clobbered, jobStatus, summary>>
          ELSE /\ preview' = TRUE
               /\ saved' = IF path # None THEN "saved" ELSE "skipped"
               /\ files' = IF path # None THEN files \cup {path} ELSE files
               /\ clobbered' = (path # None /\ path \in files)
               /\ jobStatus' = IF triggerd # "None" THEN triggerd ELSE "Succesful"
               /\ IF path = None
                  THEN \* os.path.split(None)
                       /\ Raise("TypeError", 1)
                       /\ UNCHANGED summary
                  ELSE /\ summary' = count - 1
                       /\ pc' = "exit"
                       /\ exitStatus' = 0
                       /\ UNCHANGED error
    /\ UNCHANGED <<config, ser, params, table, ending>>

(* ------------------------------ variant B ------------------------------ *)
\* main(port, baudrate, num_of_samples): serial.Serial(port, baudrate), or
\* quit() when it raises
Connect ==
    /\ variant = "B" /\ pc = "connect"
    /\ \E ok \in BOOLEAN, n \in SampleCounts :
          /\ max_count' = n
          /\ IF ok THEN /\ ser' = "open"
                        /\ pc' = "params"
                        /\ UNCHANGED <<error, exitStatus>>
                   ELSE /\ Raise("ConnectionFailed", 0)
                        /\ UNCHANGED ser
    /\ UNCHANGED <<config, files, headers_printed, requested, path, overwrite, table,
                   ending, report>>

\* the print question, get_saving_params() and 'Press Enter to start'
GetSavingParams ==
    /\ variant = "B" /\ pc = "params"
    /\ \E typed \in FileNames, answer \in Answers, start \in BOOLEAN :
          /\ requested' = RequestedB(typed)
          /\ overwrite' = OverwriteB(typed, answer, files)
          /\ path' = PathB(typed, answer, files)
          /\ IF start THEN /\ pc' = "loop"
                           /\ UNCHANGED exitStatus
                      ELSE /\ pc' = "exit"
                           /\ exitStatus' = 0
    /\ UNCHANGED <<config, files, ser, headers_printed, max_count, table, ending, report,
                   error>>

\* one iteration of the for loop of read_data
ReadLineB ==
    /\ variant = "B" /\ pc = "loop" /\ LoopCondition(count, max_count)
    /\ \E line \in device, strict \in BOOLEAN :
          LET toks == NormalizeB(line)
              row  == AppendRowB(dataframe, headers, toks, strict)
          IN  /\ received' = Append(received, line)
              /\ IF count = 0
                 THEN /\ headers' = toks
                      /\ dataframe' = <<>>
                      /\ bound' = TRUE
                      /\ count' = 1
                      /\ pc' = IF LoopCondition(1, max_count) THEN "loop" ELSE "save"
                      /\ jobStatus' = IF LoopCondition(1, max_count) THEN jobStatus ELSE "Finished"
                      /\ UNCHANGED <<error, exitStatus>>
                 ELSE IF row.ok
                 THEN /\ dataframe' = row.frame
                      /\ count' = count + 1
                      /\ pc' = IF LoopCondition(count + 1, max_count) THEN "loop" ELSE "save"
                      /\ jobStatus' = IF LoopCondition(count + 1, max_count) THEN jobStatus ELSE "Finished"
                      /\ UNCHANGED <<headers, bound, error, exitStatus>>
                 ELSE /\ Raise("ValueError", 1)
                      /\ UNCHANGED <<headers, bound, dataframe, count, jobStatus>>
              /\ cause' = IF pc' = "save" THEN "completed" ELSE cause
    /\ UNCHANGED <<config, files, ser, params, triggerd, preview, saved, clobbered, summary>>

\* ser.readline() raises serial.SerialException: nothing catches it
DisconnectB ==
    /\ variant = "B" /\ pc = "loop" /\ LoopCondition(count, max_count)
    /\ Raise("SerialException", 1)
    /\ cause' = "disconnected"
    /\ UNCHANGED <<config, files, ser, params, table, triggerd, report>>

\* ctrl-c during the loop: nothing catches it
InterruptB ==
    /\ variant = "B" /\ pc = "loop" /\ LoopCondition(count, max_count)
    /\ Raise("KeyboardInterrupt", 130)
    /\ cause' = "interrupted"
    /\ UNCHANGED <<config, files, ser, params, table, triggerd, report>>

\* data.to_csv(save_name, index=False) in its try block
SaveB ==
    /\ variant = "B" /\ pc = "save"
    /\ \E writeOk \in BOOLEAN :
          IF writeOk
          THEN /\ saved' = "saved"
               /\ files' = files \cup {path}
               /\ clobbered' = (path \in files)
          ELSE /\ saved' = "failed"
               /\ UNCHANGED <<files, clobbered>>
    /\ pc' = "exit"
    /\ exitStatus' = 0
    /\ UNCHANGED <<config, ser, params, table, ending, preview, jobStatus, summary, error>>

Next ==
    \/ PortPrompt
    \/ BaudPrompt
    \/ TestConnection
    \/ GetCollectionParams
    \/ SerOpen
    \/ ReadLineA
    \/ DisconnectA
    \/ InterruptA
    \/ ReportA
    \/ Connect
    \/ GetSavingParams
    \/ ReadLineB
    \/ DisconnectB
    \/ InterruptB
    \/ SaveB

Spec == Init /\ [][Next]_vars

SpecSaving == InitSaving /\ [][Next]_vars

SpecPrompt == InitPrompt /\ [][Next]_vars

\* a live source: a blocked read returns, and main runs on to its end
SpecLive == Init /\ [][Next]_vars /\ WF_vars(Next)

(* ------------------------------- claims -------------------------------- *)
\* the tokens the running variant makes of a line
Tokens(line) == IF variant = "A" THEN NormalizeA(line) ELSE NormalizeB(line)

\* what a source that never faults prints: every record has tokens, as many
\* as the first one, and (variant B, which casts to float) numeric ones from
\* the second record on
NeverFailing(recs) ==
    /\ \A i \in 1..Len(recs) : Tokens(recs[i]) # <<>> /\ Len(Tokens(recs[i])) = Len(Tokens(recs[1]))
    /\ variant = "B" =>
          \A i \in 2..Len(recs) : \A j \in 1..Len(Tokens(recs[i])) : IsFloat(Tokens(recs[i])[j])

\* C1: a session for N >= 1 samples whose source never faults and which is
\* never interrupted leaves the loop having consumed N + 1 records, with N
\* rows in the table and cause 'completed'; the job is reported as successful
\* and the program terminates.
C1_CompletesWithNRows ==
    /\ []((/\ pc \in {"report", "save", "exit"}
           /\ received # <<>>
           /\ NeverFailing(received)
           /\ cause \notin {"disconnected", "interrupted"})
          => /\ Len(received) = max_count + 1
             /\ Len(dataframe) = max_count
             /\ cause = "completed"
             /\ triggerd = "None"
             /\ (pc = "exit" /\ saved # "failed") => jobStatus \in {"Succesful", "Finished"})
    /\ <>(pc = "exit")

\* C1 witness: two samples asked for, two rows collected, reported successful
C1_Witness ==
    /\ variant = "A" /\ pc = "exit" /\ max_count = 2
    /\ cause = "completed" /\ jobStatus = "Succesful"
    /\ Len(received) = 3 /\ NeverFailing(received)
    /\ Len(dataframe) = 2

\* C2: when a disconnect or an interrupt ends the loop after k < N rows, the
\* table keeps those k rows, the cause is reported as disconnected or
\* interrupted, and the save step runs when saving was requested.
C2_PartialDataReportedAndSaved ==
    (pc = "exit" /\ cause \in {"disconnected", "interrupted"})
    => /\ Len(dataframe) < max_count
       /\ jobStatus = (IF cause = "disconnected" THEN Disconnected ELSE Stopped)
       /\ (path # None => saved \in {"saved", "failed"})

\* C3: when the program has finished, a connection that was opened is closed.
C3_ConnectionClosedAtExit ==
    (pc = "exit" /\ ser # "unbound") => ser = "closed"

\* C4: once the read loop is entered, whatever ends it (also during the read
\* of the priming record) and whatever the configuration, the preview is
\* displayed and the runtime and row count are reported without a crash.
C4_AlwaysReports ==
    (variant = "A" /\ pc = "exit" /\ cause \in {"completed", "disconnected", "interrupted"}
        /\ saved # "failed")
    => /\ preview
       /\ summary # -1
       /\ error = ""

\* C5: a record whose token count differs from the number of headers is
\* dropped: the table is unchanged and the session goes on.
C5_MismatchedRowDropped ==
    [][ (/\ received' # received
         /\ count >= 1
         /\ Len(Tokens(received'[Len(received')])) # Len(headers))
        => (dataframe' = dataframe /\ pc' # "exit" /\ error' = "") ]_vars

\* the records after the first that have tokens
DataRecords == SelectSeq(Tail(received), LAMBDA l : Tokens(l) # <<>>)

\* C6: after priming every row has as many fields as there are headers, and
\* as many as its record has tokens (no padding, no truncation); the headers
\* never change once established.
C6_RowsMatchHeaders ==
    /\ [](bound => /\ Len(dataframe) <= Len(DataRecords)
                   /\ \A i \in 1..Len(dataframe) :
                         /\ Len(dataframe[i]) = Len(headers)
                         /\ Len(dataframe[i]) = Len(Tokens(DataRecords[i])))
    /\ [][bound => (bound' /\ headers' = headers)]_vars

\* C6 witness: two rows under two headers
C6_Witness ==
    bound /\ Len(headers) = 2 /\ Len(dataframe) = 2

\* C7: an empty priming record is a schema error: the session is aborted
\* before any row is collected.
C7_EmptyPrimingAborts ==
    (received # <<>> /\ Tokens(received[1]) = <<>>)
    => /\ pc = "exit"
       /\ error # ""
       /\ Len(received) = 1
       /\ dataframe = <<>>

\* the path was chosen and nothing has been written yet
ChoiceMade == pc \notin {"connect", "params"} /\ path # None /\ saved = "no"

\* 'name (k).csv' for a requested 'name.csv'
ClaimNumbered(req, k) ==
    SubSeq(req, 1, Len(req) - 4) \o <<" ", "(">> \o str(k) \o <<")", ".", "c", "s", "v">>

\* the same, except that '.csv' alone is numbered '.csv (k)'
AmendedNumbered(req, k) ==
    IF Len(req) = 4 THEN req \o <<" ", "(">> \o str(k) \o <<")">> ELSE ClaimNumbered(req, k)

\* C8 as stated: the chosen path never names an existing file; a free
\* requested path is used as is, a taken one becomes 'name (k).csv' for the
\* smallest free k >= 1; no save overwrites a file.
C8_NeverOverwrites ==
    /\ ~clobbered
    /\ ChoiceMade =>
          /\ path \notin files
          /\ IF requested \notin files THEN path = requested
             ELSE \E k \in 1..(Cardinality(files) + 1) :
                     /\ path = ClaimNumbered(requested, k)
                     /\ \A j \in 1..(k - 1) : ClaimNumbered(requested, j) \in files

\* C8 amended: the chosen path names an existing file only in variant B, when
\* the user agreed to overwrite the requested path; otherwise a free requested
\* path is used as is and a taken one is numbered with the smallest free
\* k >= 1 ('name (k).csv', or '.csv (k)' for the empty name).
C8_OverwritesOnlyOnConsent ==
    /\ clobbered => (variant = "B" /\ overwrite)
    /\ ChoiceMade =>
          IF overwrite THEN variant = "B" /\ path = requested /\ path \in files
          ELSE /\ path \notin files
               /\ IF requested \notin files THEN path = requested
                  ELSE \E k \in 1..(Cardinality(files) + 1) :
                          /\ path = AmendedNumbered(requested, k)
                          /\ \A j \in 1..(k - 1) : AmendedNumbered(requested, j) \in files

\* C8 witness: d.csv and d (1).csv existed, the data went to d (2).csv
C8_Witness ==
    /\ saved = "saved" /\ ~clobbered
    /\ requested = Numbered(0) /\ path = Numbered(2)
    /\ Numbered(1) \in files

\* C9: exit status 0 after normal completion or a user interrupt, whatever
\* the configuration; non-zero, and no record read, when the connection
\* cannot be opened at startup.
C9_ExitStatus ==
    pc = "exit" =>
       /\ (cause \in {"completed", "interrupted"} /\ saved # "failed") => exitStatus = 0
       /\ error = "ConnectionFailed" => (exitStatus # 0 /\ received = <<>>)

\* a line with every delimiter character replaced by a blank, whitespace-split
ClaimTokens(line) ==
    split([i \in 1..Len(line) |-> IF line[i] \in {";", "|", ":", ","} THEN " " ELSE line[i]])

\* Col0 .. Col(n-1), n <= 10
ColNames(n) == [k \in 1..n |-> <<"C", "o", "l", Digit[k]>>]

\* every record has tokens, and as many as the first
WellFormed(recs, tok(_)) ==
    \A i \in 1..Len(recs) : tok(recs[i]) # <<>> /\ Len(tok(recs[i])) = Len(tok(recs[1]))

\* a cell holds the token, as text or as the number it denotes
SameCells(row, toks) ==
    /\ Len(row) = Len(toks)
    /\ \A j \in 1..Len(toks) :
          row[j] = toks[j] \/ (IsFloat(toks[j]) /\ row[j] = FloatRepr(toks[j]))

\* C10 as stated: of well-formed records the first gives the headers (its
\* tokens, or Col0.. when the source prints none) and is no row; every later
\* record, delimiters replaced and whitespace-split, is one row, in arrival
\* order.
C10_TableIsTheRecords ==
    (bound /\ WellFormed(received, ClaimTokens))
    => /\ error # "ValueError"
       /\ headers = (IF variant = "B" \/ headers_printed
                     THEN ClaimTokens(received[1])
                     ELSE ColNames(Len(ClaimTokens(received[1]))))
       /\ Len(dataframe) = Len(received) - 1
       /\ \A i \in 1..Len(dataframe) : SameCells(dataframe[i], ClaimTokens(received[i + 1]))

\* well-formed for variant B: as many whitespace-separated tokens as the
\* first record has, numeric from the second record on
WellFormedB(recs) ==
    /\ WellFormed(recs, split)
    /\ \A i \in 2..Len(recs) : \A j \in 1..Len(split(recs[i])) : IsFloat(split(recs[i])[j])

\* C10 amended: as stated for variant A; variant B only whitespace-splits,
\* always takes the first record's tokens as headers and appends each later
\* record of numeric tokens as a row of floats, in arrival order.
C10_TableIsTheRecordsPerVariant ==
    /\ (variant = "A" /\ bound /\ WellFormed(received, ClaimTokens))
       => /\ error # "ValueError"
          /\ headers = (IF headers_printed THEN ClaimTokens(received[1])
                        ELSE ColNames(Len(ClaimTokens(received[1]))))
          /\ dataframe = [i \in 1..(Len(received) - 1) |-> ClaimTokens(received[i + 1])]
    /\ (variant = "B" /\ bound /\ WellFormedB(received))
       => /\ error # "ValueError"
          /\ headers = split(received[1])
          /\ dataframe = [i \in 1..(Len(received) - 1) |->
                            [j \in 1..Len(split(received[i + 1])) |->
                                FloatRepr(split(received[i + 1])[j])]]

\* C10 witness: 'T;P', '1,2', '1 02' with headers printed and two samples
C10_Witness ==
    /\ variant = "A" /\ headers_printed /\ cause = "completed"
    /\ received = << <<"T", ";", "P">>, <<"1", ",", "2">>, <<"1", " ", "0", "2">> >>
    /\ headers = << <<"T">>, <<"P">> >>
    /\ dataframe = << << <<"1">>, <<"2">> >>, << <<"1">>, <<"0", "2">> >> >>

\* C11: the baudrate prompt ends as soon as a valid integer is entered and
\* returns that integer; it returns 9600 only for a blank answer, and only a
\* non-integer answer causes another prompt.
C11_BaudratePrompt ==
    /\ pc = "baud" => \A i \in 1..Len(answers) : ~IsInt(answers[i])
    /\ (variant = "A" /\ pc \notin {"port", "baud"} /\ answers # <<>>) =>
          /\ \A i \in 1..(Len(answers) - 1) : answers[i] # <<>> /\ ~IsInt(answers[i])
          /\ IF answers[Len(answers)] = <<>> THEN baudrate = DefaultBaudrate
             ELSE IsInt(answers[Len(answers)]) /\ baudrate = ToInt(answers[Len(answers)])

====
